---- MODULE Spec2Model ----
(***************************************************************************)
(* Model of the multi-object tracker of backend/scripts/tracking_service.py *)
(* (classes Track, EnhancedTracker, Detection).                             *)
(*                                                                          *)
(* Numbers.  The program computes with floats.  Here every confidence,      *)
(* score and IoU is a fixed-point integer in units of 1/1000 (0.9 is 900,   *)
(* 1.0 is 1000), divisions truncate, and a velocity is in 1/1000 pixel.     *)
(* Box coordinates are integers (pixels).  The boxes and confidences fed to *)
(* the model are chosen so that every IoU, score and threshold comparison   *)
(* the model makes is exact or far from its threshold.                      *)
(*                                                                          *)
(* Identity.  Python compares Track and Detection objects by identity.  A   *)
(* track is named by its position in self.tracks during the call, a         *)
(* detection by its position in the list passed to update, so two equal     *)
(* detections of one frame stay two detections.                             *)
(***************************************************************************)
EXTENDS Integers, Sequences, FiniteSets, TLC

VARIABLES
    tracks,           \* EnhancedTracker.tracks: the active set, a sequence of Track records
    next_id,          \* EnhancedTracker.next_id
    frame_count,      \* EnhancedTracker.frame_count
    scipy_available,  \* whether "from scipy.optimize import linear_sum_assignment" succeeds
    status,           \* "ready": the last update returned; "hung": it never returns
    call,             \* history: what the last update call did (stages, matches, creations)
    created_ids,      \* history: the ids given to created tracks, in creation order
    expired,          \* history: tracks whose time_since_update reached max_age
    last_upd,         \* history: track id -> hits and quality_score at the end of its last Track.update
    fed,              \* history: the detection lists passed to update so far
    observed,         \* history: track id -> every box and confidence the track was given, in order
    twin,             \* history: a first run kept while a second tracker replays its input
    probe,            \* two boxes given to EnhancedTracker.iou and, once called, its result
    session,          \* one call of TrackingService.detect_and_track: its position and results
    pair              \* the trackers of one process whose update calls interleave

vars == <<tracks, next_id, frame_count, scipy_available, status, call,
          created_ids, expired, last_upd, fed, observed, twin, probe, session, pair>>

(***************************************************************************)
(* Bounds of the model and constants of the program                        *)
(***************************************************************************)
\* EnhancedTracker(max_age=...): the miss streak that evicts a track (default 30)
max_age == 3
\* number of leading update calls of Spec that are fed from WarmLists
WarmUp == 3
\* number of update calls in a behaviour of Spec
MaxFrames == 4
\* longest detection list fed after the warm-up calls of Spec
MaxDets == 2
\* number of update calls in a behaviour of SpecLife
MaxFramesLife == 7
\* number of update calls of the first run in a behaviour of SpecTwin
MaxFramesTwin == 3
\* number of update calls in a behaviour of SpecLong
MaxFramesLong == 18
\* number of leading and of trailing calls of SpecLong whose input is chosen freely
LongFree == 3
\* largest coordinate of the boxes given to iou under SpecIou
MaxCoord == 2
\* largest number of frames given to detect_and_track under SpecSession
MaxFramesSession == 7
\* largest max_tracks_per_frame of a TrackingService under SpecSession
MaxPerFrame == 2

\* EnhancedTracker(iou_threshold=0.3)
iou_threshold == 300
\* det.confidence >= 0.5 is a high-confidence detection
HighConfidence == 500
\* Track.update keeps the last 15 history entries
HistoryCap == 15
\* quality_score > 0.6 confirms a track
ConfirmQuality == 600
\* hits >= 3 confirms a track
ConfirmHits == 3
\* TrackingService.frame_skip
frame_skip == 2
\* TrackingService.min_track_duration
min_track_duration == 3
\* TrackingService(confidence_threshold=0.5)
confidence_threshold == 500
\* get_dummy_tracking_results: one entry for every 5th frame
DummyStride == 5

(***************************************************************************)
(* Helpers                                                                 *)
(***************************************************************************)
Max(a, b) == IF a >= b THEN a ELSE b

Min(a, b) == IF a <= b THEN a ELSE b

Range(s) == {s[i] : i \in DOMAIN s}

RECURSIVE SumSeq(_)
SumSeq(s) == IF s = <<>> THEN 0 ELSE Head(s) + SumSeq(Tail(s))

\* faulty variant (sensitivity test): keeps the first n entries
LastN_Oldest(s, n) == IF Len(s) <= n THEN s ELSE SubSeq(s, 1, n)

\* s[-n:] of Python
LastN(s, n) == IF Len(s) <= n THEN s ELSE SubSeq(s, Len(s) - n + 1, Len(s))

RECURSIVE IsqrtIn(_, _, _)
IsqrtIn(n, lo, hi) ==
    IF lo >= hi THEN lo
    ELSE LET mid == (lo + hi + 1) \div 2
         IN  IF mid * mid <= n THEN IsqrtIn(n, mid, hi) ELSE IsqrtIn(n, lo, mid - 1)

\* math.sqrt / the square root inside np.std, truncated to an integer
Isqrt(n) == IsqrtIn(n, 0, Min(n, 46340))

\* the elements of a finite set of integers in increasing order
RECURSIVE SortedSeq(_)
SortedSeq(S) ==
    IF S = {} THEN <<>>
    ELSE LET m == CHOOSE x \in S : \A y \in S : x <= y
         IN  <<m>> \o SortedSeq(S \ {m})

(***************************************************************************)
(* Detection and Track                                                     *)
(***************************************************************************)
Detection(bbox, confidence, class_id) ==
    [bbox |-> bbox, confidence |-> confidence, class_id |-> class_id]

\* Track.__init__
Track_init(bbox, confidence, class_id, track_id) ==
    [ bbox               |-> bbox,
      confidence         |-> confidence,
      class_id           |-> class_id,
      track_id           |-> track_id,
      hits               |-> 1,
      age                |-> 0,
      time_since_update  |-> 0,
      state              |-> "tentative",
      history            |-> <<bbox>>,
      confidence_history |-> <<confidence>>,
      velocity           |-> <<0, 0>>,
      stability_score    |-> 1000,
      consistency_score  |-> 1000,
      quality_score      |-> confidence ]

\* twice the centre of a box (the centre itself may be a half integer)
Center2(b) == <<b[1] + b[3], b[2] + b[4]>>

\* faulty variant (sensitivity test): predict also moves the track's box, by
\* the last displacement
Track_predict_Moves(t) ==
    IF Len(t.history) >= 2
    THEN [t EXCEPT !.bbox = [k \in 1..4 |->
                                2 * t.history[Len(t.history)][k]
                                  - t.history[Len(t.history) - 1][k]]]
    ELSE t

\* Track.predict: only the velocity changes; the predicted box is returned to a
\* caller that drops it
Track_predict(t) ==
    IF Len(t.history) >= 2
    THEN LET prev == Center2(t.history[Len(t.history) - 1])
             curr == Center2(t.history[Len(t.history)])
             vx   == 500 * (curr[1] - prev[1])
             vy   == 500 * (curr[2] - prev[2])
         IN  [t EXCEPT !.velocity = << (7 * t.velocity[1] + 3 * vx) \div 10,
                                       (7 * t.velocity[2] + 3 * vy) \div 10 >>]
    ELSE t

\* Track.predict, the box it returns, to the 1/20 pixel and in that unit; t is
\* the track after predict (with the smoothed velocity)
predicted_bbox(t) ==
    IF Len(t.history) >= 2
    THEN LET curr == t.history[Len(t.history)]
             cx20 == 10 * Center2(curr)[1] + t.velocity[1] \div 50
             cy20 == 10 * Center2(curr)[2] + t.velocity[2] \div 50
             w    == 10 * (curr[3] - curr[1])
             h    == 10 * (curr[4] - curr[2])
         IN  <<cx20 - w, cy20 - h, cx20 + w, cy20 + h>>
    ELSE [k \in 1..4 |-> 20 * t.bbox[k]]

\* Track.calculate_bbox_variation: distance of the two centres, in 1/10 pixel
\* (which is the distance / 100 in units of 1/1000)
calculate_bbox_variation(bbox1, bbox2) ==
    LET c1 == Center2(bbox1)
        c2 == Center2(bbox2)
        dx == c1[1] - c2[1]
        dy == c1[2] - c2[2]
    IN  Isqrt(25 * (dx * dx + dy * dy))

\* np.mean of a non-empty list
Mean(s) == SumSeq(s) \div Len(s)

\* np.std (population standard deviation) of a non-empty list
Std(s) ==
    LET n  == Len(s)
        sm == SumSeq(s)
        sq == SumSeq([i \in 1..n |-> s[i] * s[i]])
    IN  Isqrt(n * sq - sm * sm) \div n

\* faulty variant (sensitivity test): confirms one hit early
StateAfterUpdate_Early(hits, quality_score, state) ==
    IF hits >= ConfirmHits - 1 /\ quality_score > ConfirmQuality THEN "confirmed"
    ELSE IF hits >= 1 THEN "tentative"
    ELSE state

\* faulty variant (sensitivity test): a confirmed track stays confirmed
StateAfterUpdate_Sticky(hits, quality_score, state) ==
    IF state = "confirmed" \/ (hits >= ConfirmHits /\ quality_score > ConfirmQuality)
    THEN "confirmed"
    ELSE IF hits >= 1 THEN "tentative"
    ELSE state

\* Track.update, the state rule at its end
StateAfterUpdate(hits, quality_score, state) ==
    IF hits >= ConfirmHits /\ quality_score > ConfirmQuality THEN "confirmed"
    ELSE IF hits >= 1 THEN "tentative"
    ELSE state

\* Track.update, the stability score from the history h after the append
stability(t, h) ==
    IF Len(h) >= 3
    THEN 1000 - Min(1000, Mean(<<calculate_bbox_variation(h[Len(h) - 2], h[Len(h) - 1]),
                                 calculate_bbox_variation(h[Len(h) - 1], h[Len(h)])>>))
    ELSE t.stability_score

\* Track.update, the consistency score from the confidence history c after the append
consistency(t, c) ==
    IF Len(c) >= 3 THEN 1000 - Min(1000, Std(LastN(c, 5))) ELSE t.consistency_score

\* faulty variant (sensitivity test): Track.update does not count the call in age
Track_assign_NoAge(t, bbox, confidence, h, c, stab, cons, qual) ==
    [t EXCEPT !.bbox = bbox,
              !.confidence = confidence,
              !.hits = t.hits + 1,
              !.time_since_update = 0,
              !.history = h,
              !.confidence_history = c,
              !.stability_score = stab,
              !.consistency_score = cons,
              !.quality_score = qual,
              !.state = StateAfterUpdate(t.hits + 1, qual, t.state)]

\* Track.update, the assignments, given the values it computed
Track_assign(t, bbox, confidence, h, c, stab, cons, qual) ==
    [t EXCEPT !.bbox = bbox,
              !.confidence = confidence,
              !.hits = t.hits + 1,
              !.age = t.age + 1,
              !.time_since_update = 0,
              !.history = h,
              !.confidence_history = c,
              !.stability_score = stab,
              !.consistency_score = cons,
              !.quality_score = qual,
              !.state = StateAfterUpdate(t.hits + 1, qual, t.state)]

\* Track.update, the scores from the two histories
Track_score(t, bbox, confidence, h, c, stab, cons) ==
    Track_assign(t, bbox, confidence, h, c, stab, cons, (confidence + stab + cons) \div 3)

\* Track.update, from the appended histories h0 and c0: both are cut to their
\* last 15 entries when the box history is longer
Track_trim(t, bbox, confidence, h0, c0) ==
    IF Len(h0) > HistoryCap
    THEN Track_score(t, bbox, confidence, LastN(h0, HistoryCap), LastN(c0, HistoryCap),
                     stability(t, LastN(h0, HistoryCap)), consistency(t, LastN(c0, HistoryCap)))
    ELSE Track_score(t, bbox, confidence, h0, c0, stability(t, h0), consistency(t, c0))

\* Track.update
Track_update(t, bbox, confidence) ==
    Track_trim(t, bbox, confidence, Append(t.history, bbox),
               Append(t.confidence_history, confidence))

\* faulty variant (sensitivity test): a missed track falls back to tentative
Track_mark_missed_Demotes(t) ==
    [t EXCEPT !.time_since_update = t.time_since_update + 1,
              !.age = t.age + 1,
              !.quality_score = (t.quality_score * 95) \div 100,
              !.state = "tentative"]

\* Track.mark_missed
Track_mark_missed(t) ==
    [t EXCEPT !.time_since_update = t.time_since_update + 1,
              !.age = t.age + 1,
              !.quality_score = (t.quality_score * 95) \div 100]

(***************************************************************************)
(* EnhancedTracker: IoU and the association of detections to tracks.       *)
(* T is the current list of tracks and D the list of detections passed to  *)
(* update; tl and dl are the argument lists of one association, as         *)
(* sequences of positions in T and in D.                                   *)
(***************************************************************************)
\* faulty variant (sensitivity test): the union counts the intersection twice
IouOf_Sum(bbox1, bbox2, intersection) ==
    LET union == (bbox1[3] - bbox1[1]) * (bbox1[4] - bbox1[2])
                 + (bbox2[3] - bbox2[1]) * (bbox2[4] - bbox2[2])
    IN  IF union > 0 THEN (intersection * 1000) \div union ELSE 0

\* EnhancedTracker.iou, the last line
Ratio(intersection, union) ==
    IF union > 0 THEN (intersection * 1000) \div union ELSE 0

\* EnhancedTracker.iou, from the intersection
IouOf(bbox1, bbox2, intersection) ==
    Ratio(intersection,
          (bbox1[3] - bbox1[1]) * (bbox1[4] - bbox1[2])
          + (bbox2[3] - bbox2[1]) * (bbox2[4] - bbox2[2]) - intersection)

\* EnhancedTracker.iou
iou(bbox1, bbox2) ==
    IouOf(bbox1, bbox2,
          Max(0, Min(bbox1[3], bbox2[3]) - Max(bbox1[1], bbox2[1]))
          * Max(0, Min(bbox1[4], bbox2[4]) - Max(bbox1[2], bbox2[2])))

\* cost_matrix[i, j] = 1 - iou(track.bbox, detection.bbox)
CostMatrix(T, D, tl, dl) ==
    [i \in 1..Len(tl) |-> [j \in 1..Len(dl) |-> 1000 - iou(T[tl[i]].bbox, D[dl[j]].bbox)]]

\* faulty variant (sensitivity test): accepts a pair whose IoU equals the threshold
Accepted_Inclusive(cost) == cost <= 1000 - iou_threshold

\* the acceptance test of a proposed pair: cost_matrix[i, j] < 1 - iou_threshold
Accepted(cost) == cost < 1000 - iou_threshold

Injections(n, m) ==
    {f \in [1..n -> 1..m] : \A i, j \in 1..n : i # j => f[i] # f[j]}

\* the complete assignments of an n x m matrix, each a sequence of <<row, column>>
\* pairs in increasing row order (as zip(track_indices, detection_indices))
Assignments(n, m) ==
    IF n <= m
    THEN {[i \in 1..n |-> <<i, f[i]>>] : f \in Injections(n, m)}
    ELSE {LET rows == SortedSeq(Range(g))
          IN  [k \in 1..m |-> <<rows[k], CHOOSE j \in 1..m : g[j] = rows[k]>>]
          : g \in Injections(m, n)}

TotalCost(cost, a) == SumSeq([k \in 1..Len(a) |-> cost[a[k][1]][a[k][2]]])

\* the assignments of least total cost among all
LeastCost(cost, all) ==
    {a \in all : \A b \in all : TotalCost(cost, a) <= TotalCost(cost, b)}

\* scipy.optimize.linear_sum_assignment: an assignment of minimum total cost.
\* Which one it returns among several of minimum cost is not specified: all of
\* them are outcomes.
linear_sum_assignment(cost, n, m) == LeastCost(cost, Assignments(n, m))

\* associate_detections_to_tracks, the three result lists: acc are the accepted
\* and rej the rejected pairs of the assignment a, freeRows and freeCols the
\* rows and columns a does not use
HungarianLists(tl, dl, a, acc, rej, freeRows, freeCols) ==
    [ matched              |-> [k \in 1..Len(acc) |-> <<tl[acc[k][1]], dl[acc[k][2]]>>],
      unmatched_detections |-> [k \in 1..Len(rej) |-> dl[rej[k][2]]]
                               \o [k \in 1..Len(freeCols) |-> dl[freeCols[k]]],
      unmatched_tracks     |-> [k \in 1..Len(rej) |-> tl[rej[k][1]]]
                               \o [k \in 1..Len(freeRows) |-> tl[freeRows[k]]],
      proposed             |-> [k \in 1..Len(a) |-> <<tl[a[k][1]], dl[a[k][2]]>>],
      returns              |-> TRUE ]

\* associate_detections_to_tracks, the branch that uses the assignment a
\* returned by linear_sum_assignment for the cost matrix cost
HungarianResult(cost, tl, dl, a) ==
    LET Acc(p) == Accepted(cost[p[1]][p[2]])
        Rej(p) == ~Accepted(cost[p[1]][p[2]])
    IN  HungarianLists(tl, dl, a, SelectSeq(a, Acc), SelectSeq(a, Rej),
                       SortedSeq((1..Len(tl)) \ {a[k][1] : k \in 1..Len(a)}),
                       SortedSeq((1..Len(dl)) \ {a[k][2] : k \in 1..Len(a)}))

\* associate_detections_to_tracks, after the cost matrix
Assign(cost, tl, dl) ==
    {HungarianResult(cost, tl, dl, a) : a \in linear_sum_assignment(cost, Len(tl), Len(dl))}

\* list.sort(key=lambda x: x.confidence, reverse=True): stable, descending
RECURSIVE SortByConfidence(_, _)
SortByConfidence(D, dl) ==
    IF dl = <<>> THEN <<>>
    ELSE LET rest == SortByConfidence(D, SubSeq(dl, 1, Len(dl) - 1))
             x    == dl[Len(dl)]
             AtLeast(y) == D[y].confidence >= D[x].confidence
             Below(y)   == D[y].confidence < D[x].confidence
         IN  SelectSeq(rest, AtLeast) \o <<x>> \o SelectSeq(rest, Below)

\* greedy_assignment, the inner loop: the first track of the pool with the
\* highest IoU above the threshold, 0 when there is none
RECURSIVE BestTrack(_, _, _, _, _, _, _)
RECURSIVE BestOf(_, _, _, _, _, _, _, _)
BestOf(T, D, pool, d, k, best_track, best_iou, v) ==
    IF v > best_iou /\ v > iou_threshold
    THEN BestTrack(T, D, pool, d, k + 1, pool[k], v)
    ELSE BestTrack(T, D, pool, d, k + 1, best_track, best_iou)

BestTrack(T, D, pool, d, k, best_track, best_iou) ==
    IF k > Len(pool) THEN best_track
    ELSE BestOf(T, D, pool, d, k, best_track, best_iou, iou(T[pool[k]].bbox, D[d].bbox))

RemoveFirst(s, x) ==
    LET k == CHOOSE i \in 1..Len(s) : s[i] = x /\ \A j \in 1..(i - 1) : s[j] # x
    IN  SubSeq(s, 1, k - 1) \o SubSeq(s, k + 1, Len(s))

\* what greedy_assignment has when its loop ends (returns) or cannot end
GreedyResult(matched, unmatched_detections, unmatched_tracks, returns) ==
    [ matched              |-> matched,
      unmatched_detections |-> unmatched_detections,
      unmatched_tracks     |-> unmatched_tracks,
      proposed             |-> matched,
      returns              |-> returns ]

\* greedy_assignment, the loop over unmatched_detections.  A detection with no
\* track is appended to the list the loop is iterating, is visited again, finds
\* no track again (the pool only shrinks) and is appended again: the loop never
\* ends (returns = FALSE).  A matched detection is never removed from
\* unmatched_detections.
RECURSIVE GreedyLoop(_, _, _, _, _, _)
RECURSIVE GreedyStep(_, _, _, _, _, _, _)
GreedyStep(T, D, unmatched_detections, k, unmatched_tracks, matched, best_track) ==
    IF best_track # 0
    THEN GreedyLoop(T, D, unmatched_detections, k + 1,
                    RemoveFirst(unmatched_tracks, best_track),
                    Append(matched, <<best_track, unmatched_detections[k]>>))
    ELSE GreedyResult(matched, unmatched_detections, unmatched_tracks, FALSE)

GreedyLoop(T, D, unmatched_detections, k, unmatched_tracks, matched) ==
    IF k > Len(unmatched_detections)
    THEN GreedyResult(matched, unmatched_detections, unmatched_tracks, TRUE)
    ELSE GreedyStep(T, D, unmatched_detections, k, unmatched_tracks, matched,
                    BestTrack(T, D, unmatched_tracks, unmatched_detections[k], 1, 0, 0))

\* EnhancedTracker.greedy_assignment
greedy_assignment(T, D, dl, tl) ==
    GreedyLoop(T, D, SortByConfidence(D, dl), 1, tl, <<>>)

\* the result r of an association together with the cost matrix it built
WithCost(r, cost_matrix) == r @@ [cost_matrix |-> cost_matrix]

\* EnhancedTracker.associate_detections_to_tracks: the set of its outcomes
\* (no cost matrix is built when one of the lists is empty)
associate_detections_to_tracks(T, D, dl, tl, scipy) ==
    IF Len(tl) = 0
    THEN {[ matched |-> <<>>, unmatched_detections |-> dl, unmatched_tracks |-> <<>>,
            proposed |-> <<>>, returns |-> TRUE, cost_matrix |-> <<>> ]}
    ELSE IF Len(dl) = 0
    THEN {[ matched |-> <<>>, unmatched_detections |-> <<>>, unmatched_tracks |-> tl,
            proposed |-> <<>>, returns |-> TRUE, cost_matrix |-> <<>> ]}
    ELSE IF scipy
    THEN {WithCost(r, CostMatrix(T, D, tl, dl)) :
            r \in Assign(CostMatrix(T, D, tl, dl), tl, dl)}
    ELSE {WithCost(greedy_assignment(T, D, dl, tl), CostMatrix(T, D, tl, dl))}

(***************************************************************************)
(* EnhancedTracker.update                                                  *)
(***************************************************************************)
Positions(n) == [i \in 1..n |-> i]

\* faulty variant (sensitivity test): every detection counts as a high-confidence detection
high_conf_detections_All(D) == Positions(Len(D))

\* the detections with confidence >= 0.5, in input order
high_conf_detections(D) ==
    LET High(i) == D[i].confidence >= HighConfidence
    IN  SelectSeq(Positions(Len(D)), High)

\* the other detections, in input order
low_conf_detections(D) ==
    LET Low(i) == ~(D[i].confidence >= HighConfidence)
    IN  SelectSeq(Positions(Len(D)), Low)

confirmed_tracks(T) ==
    LET Confirmed(p) == T[p].state = "confirmed"
    IN  SelectSeq(Positions(Len(T)), Confirmed)

unconfirmed_tracks(T) ==
    LET Tentative(p) == T[p].state = "tentative"
    IN  SelectSeq(Positions(Len(T)), Tentative)

\* "for track, detection in matched: track.update(detection.bbox, detection.confidence)"
\* returns the tracks and the log of the updates applied
RECURSIVE ApplyMatches(_, _, _, _, _)
RECURSIVE ApplyMatch(_, _, _, _, _, _)
ApplyMatch(T, D, matched, stage, log, u) ==
    ApplyMatches([T EXCEPT ![Head(matched)[1]] = u], D, Tail(matched), stage,
                 Append(log, [ track         |-> Head(matched)[1],
                               detection     |-> Head(matched)[2],
                               stage         |-> stage,
                               track_id      |-> u.track_id,
                               bbox_before   |-> T[Head(matched)[1]].bbox,
                               hits_after    |-> u.hits,
                               quality_after |-> u.quality_score ]))

ApplyMatches(T, D, matched, stage, log) ==
    IF matched = <<>> THEN [tracks |-> T, log |-> log]
    ELSE ApplyMatch(T, D, matched, stage, log,
                    Track_update(T[Head(matched)[1]], D[Head(matched)[2]].bbox,
                                 D[Head(matched)[2]].confidence))

\* the tracks offered to the low-confidence association
unmatched_confirmed_after_high(unmatched_confirmed, matched_unconfirmed) ==
    LET Free(p) == \A k \in 1..Len(matched_unconfirmed) : matched_unconfirmed[k][1] # p
    IN  SelectSeq(unmatched_confirmed, Free)

\* the detections that create a track: those of unmatched_high_conf that are not
\* in a pair of matched_unconfirmed
NewTrackDetections(unmatched_high_conf, matched_unconfirmed) ==
    LET Free(d) == \A k \in 1..Len(matched_unconfirmed) : matched_unconfirmed[k][2] # d
    IN  SelectSeq(unmatched_high_conf, Free)

\* faulty variant (sensitivity test): the id counter is not advanced
NextIdAfter_Stuck(id) == id

\* self.next_id += 1
NextIdAfter(id) == id + 1

\* the loop that creates the new tracks
RECURSIVE CreateTracks(_, _, _, _, _)
CreateTracks(T, D, news, id, created) ==
    IF news = <<>> THEN [tracks |-> T, next_id |-> id, created |-> created]
    ELSE CreateTracks(Append(T, Track_init(D[Head(news)].bbox, D[Head(news)].confidence,
                                           D[Head(news)].class_id, id)),
                      D, Tail(news), NextIdAfter(id),
                      Append(created, [ detection |-> Head(news),
                                        track_id  |-> id,
                                        track     |-> Track_init(D[Head(news)].bbox,
                                                                 D[Head(news)].confidence,
                                                                 D[Head(news)].class_id, id) ]))

\* faulty variant (sensitivity test): the tracks matched by a low-confidence detection are forgotten
all_matched_tracks_NoLow(matched_high_conf, matched_unconfirmed, matched_low_conf) ==
    [k \in 1..(Len(matched_high_conf) + Len(matched_unconfirmed)) |->
        (matched_high_conf \o matched_unconfirmed)[k][1]]

\* faulty variant (sensitivity test): the matched tentative tracks are forgotten
all_matched_tracks_NoUnconfirmed(matched_high_conf, matched_unconfirmed, matched_low_conf) ==
    [k \in 1..(Len(matched_high_conf) + Len(matched_low_conf)) |->
        (matched_high_conf \o matched_low_conf)[k][1]]

\* all_matched_tracks
all_matched_tracks(matched_high_conf, matched_unconfirmed, matched_low_conf) ==
    [k \in 1..(Len(matched_high_conf) + Len(matched_unconfirmed) + Len(matched_low_conf)) |->
        (matched_high_conf \o matched_unconfirmed \o matched_low_conf)[k][1]]

\* faulty variant (sensitivity test): the tracks the call created are not marked
MissedTracks_OldOnly(T, matched_tracks) ==
    LET Missed(p) == /\ \A k \in 1..Len(matched_tracks) : matched_tracks[k] # p
                     /\ T[p].age > 0
    IN  SelectSeq(Positions(Len(T)), Missed)

\* the positions of the tracks that mark_missed is applied to
MissedTracks(T, matched_tracks) ==
    LET Missed(p) == \A k \in 1..Len(matched_tracks) : matched_tracks[k] # p
    IN  SelectSeq(Positions(Len(T)), Missed)

MarkMissed(T, missed) ==
    [p \in 1..Len(T) |-> IF \E k \in 1..Len(missed) : missed[k] = p
                         THEN Track_mark_missed(T[p]) ELSE T[p]]

\* faulty variant (sensitivity test): no track is ever removed
Keep_All(t) == TRUE

\* faulty variant (sensitivity test): a track is kept until its miss streak exceeds max_age
Keep_Late(t) == t.time_since_update <= max_age

\* the test of "Remove old tracks"
Keep(t) == t.time_since_update < max_age

\* faulty variant (sensitivity test): the kept tracks are returned newest first
RemoveOld_Reversed(T) ==
    [i \in 1..Len(SelectSeq(T, Keep)) |->
        SelectSeq(T, Keep)[Len(SelectSeq(T, Keep)) + 1 - i]]

RemoveOld(T) == SelectSeq(T, Keep)

\* the log of one association
StageLog(stage, dl, tl, r) == [stage |-> stage, detections |-> dl, tracks |-> tl, result |-> r]

\* what update has at its start: the tracks after predict (T0), the two
\* detection lists and the two track lists
Context(pre, next, D, scipy, T0) ==
    [ pre |-> pre, next |-> next, D |-> D, scipy |-> scipy, T0 |-> T0,
      high        |-> high_conf_detections(D),
      low         |-> low_conf_detections(D),
      confirmed   |-> confirmed_tracks(T0),
      unconfirmed |-> unconfirmed_tracks(T0) ]

\* an update call that never returns: the tracks as the stages so far left them
HungCall(cx, T, stages, updates) ==
    [ tracks  |-> T,
      next_id |-> cx.next,
      status  |-> "hung",
      expired |-> {},
      call    |-> [ detections |-> cx.D, pre |-> cx.pre, predicted |-> cx.T0,
                    stages |-> stages,
                    updates |-> updates, created |-> <<>>, missed |-> <<>>,
                    marked |-> <<>>, returned |-> FALSE ] ]

LogA(cx, rA) == <<StageLog("A", cx.high, cx.confirmed, rA)>>

LogB(cx, rA, rB) ==
    <<StageLog("A", cx.high, cx.confirmed, rA),
      StageLog("B", rA.unmatched_detections, cx.unconfirmed, rB)>>

LogC(cx, rA, rB, rC, ucah) ==
    <<StageLog("A", cx.high, cx.confirmed, rA),
      StageLog("B", rA.unmatched_detections, cx.unconfirmed, rB),
      StageLog("C", cx.low, ucah, rC)>>

\* the tracks whose time_since_update reached max_age
Expired(T) ==
    {[track_id |-> T[p].track_id, bbox |-> T[p].bbox, state |-> T[p].state] :
       p \in {q \in 1..Len(T) : T[q].time_since_update >= max_age}}

\* update: "Remove old tracks" and the return; T5 are the tracks after the
\* misses were marked
Returned(cx, stages, updates, cr, miss, T5) ==
    [ tracks  |-> RemoveOld(T5),
      next_id |-> cr.next_id,
      status  |-> "ready",
      expired |-> Expired(T5),
      call    |-> [ detections |-> cx.D, pre |-> cx.pre, predicted |-> cx.T0,
                    stages |-> stages,
                    updates |-> updates, created |-> cr.created, missed |-> miss,
                    marked |-> T5, returned |-> TRUE ] ]

\* update: "Mark unmatched tracks as missed"
Missed(cx, stages, updates, cr, miss) ==
    Returned(cx, stages, updates, cr, miss, MarkMissed(cr.tracks, miss))

\* update: "Create new tracks for unmatched high confidence detections"; a3 is
\* what the three stages left
Created(cx, rA, rB, rC, stages, a3, cr) ==
    Missed(cx, stages, a3.log, cr,
           MissedTracks(cr.tracks, all_matched_tracks(rA.matched, rB.matched, rC.matched)))

AfterC(cx, rA, rB, rC, ucah, a2) ==
    IF ~rC.returns
    THEN HungCall(cx, a2.tracks, LogC(cx, rA, rB, rC, ucah), a2.log)
    ELSE Created(cx, rA, rB, rC, LogC(cx, rA, rB, rC, ucah),
                 ApplyMatches(a2.tracks, cx.D, rC.matched, "C", a2.log),
                 CreateTracks(ApplyMatches(a2.tracks, cx.D, rC.matched, "C", a2.log).tracks,
                              cx.D, NewTrackDetections(rA.unmatched_detections, rB.matched),
                              cx.next, <<>>))

\* update: "Second association: low confidence detections with unmatched
\* confirmed tracks"
StageC(cx, rA, rB, ucah, a2) ==
    {AfterC(cx, rA, rB, rC, ucah, a2) :
       rC \in associate_detections_to_tracks(a2.tracks, cx.D, cx.low, ucah, cx.scipy)}

AfterB(cx, rA, rB, a1) ==
    IF ~rB.returns
    THEN {HungCall(cx, a1.tracks, LogB(cx, rA, rB), a1.log)}
    ELSE StageC(cx, rA, rB,
                unmatched_confirmed_after_high(rA.unmatched_tracks, rB.matched),
                ApplyMatches(a1.tracks, cx.D, rB.matched, "B", a1.log))

\* update: "Associate remaining high confidence detections with unconfirmed tracks"
StageB(cx, rA, a1) ==
    UNION {AfterB(cx, rA, rB, a1) :
             rB \in associate_detections_to_tracks(a1.tracks, cx.D, rA.unmatched_detections,
                                                   cx.unconfirmed, cx.scipy)}

AfterA(cx, rA) ==
    IF ~rA.returns
    THEN {HungCall(cx, cx.T0, LogA(cx, rA), <<>>)}
    ELSE StageB(cx, rA, ApplyMatches(cx.T0, cx.D, rA.matched, "A", <<>>))

\* update: "Associate high confidence detections with confirmed tracks"
StageA(cx) ==
    UNION {AfterA(cx, rA) :
             rA \in associate_detections_to_tracks(cx.T0, cx.D, cx.high, cx.confirmed,
                                                   cx.scipy)}

\* EnhancedTracker.update(detections) on a tracker with the tracks pre and the
\* counter next: the set of its outcomes
update(pre, next, D, scipy) ==
    StageA(Context(pre, next, D, scipy, [p \in 1..Len(pre) |-> Track_predict(pre[p])]))

(***************************************************************************)
(* Inputs                                                                  *)
(***************************************************************************)
BoxA == <<0, 0, 10, 10>>
\* IoU(BoxA, BoxB) = 0.5
BoxB == <<0, 0, 10, 5>>
\* IoU(BoxA, BoxC) = 0.3 = iou_threshold, IoU(BoxB, BoxC) = 0.6
BoxC == <<0, 0, 10, 3>>
\* disjoint from the other three
BoxD == <<20, 20, 30, 30>>

Boxes == {BoxA, BoxB, BoxC, BoxD}

\* 0.5, the least high confidence, and 0.1, a low confidence
Confidences == {500, 100}

Dets == {Detection(b, c, 0) : b \in Boxes, c \in Confidences}

\* every list of at most MaxDets detections
DetLists == UNION {[1..n -> Dets] : n \in 0..MaxDets}

\* the lists fed in the warm-up calls of Spec: nothing, one object, two
\* overlapping objects, with confidence 0.9
WarmLists ==
    { <<>>,
      <<Detection(BoxA, 900, 0)>>,
      <<Detection(BoxA, 900, 0), Detection(BoxB, 900, 0)>> }

\* the lists fed under SpecLife: at most one detection of one object, which may
\* move (BoxB) or fade (0.1)
LifeLists ==
    { <<>>,
      <<Detection(BoxA, 900, 0)>>,
      <<Detection(BoxA, 100, 0)>>,
      <<Detection(BoxB, 900, 0)>> }

(***************************************************************************)
(* The state machine                                                       *)
(***************************************************************************)
NoCall ==
    [ detections |-> <<>>, pre |-> <<>>, predicted |-> <<>>, stages |-> <<>>,
      updates |-> <<>>, created |-> <<>>, missed |-> <<>>, marked |-> <<>>,
      returned |-> TRUE ]

\* no first run is kept: run is the number of the current run, fed and out are
\* the input lists and the returned active sets of the first run, memo holds the
\* answers linear_sum_assignment gave so far
NoTwin == [run |-> 1, fed |-> <<>>, out |-> <<>>, memo |-> {}]

\* detect_and_track has not been called
NoSession == [phase |-> "idle"]

\* no tracker has been constructed besides the one of tracks, next_id and
\* frame_count
NoPair == [inst |-> <<>>, alone |-> <<>>]

\* iou has not been called
NoProbe == [bbox1 |-> <<>>, bbox2 |-> <<>>, called |-> FALSE, result |-> 0]

\* EnhancedTracker.__init__, in a process where scipy can or cannot be imported
Init ==
    /\ tracks = <<>>
    /\ next_id = 1
    /\ frame_count = 0
    /\ scipy_available \in BOOLEAN
    /\ status = "ready"
    /\ call = NoCall
    /\ created_ids = <<>>
    /\ expired = {}
    /\ last_upd = <<>>
    /\ fed = <<>>
    /\ observed = <<>>
    /\ twin = NoTwin
    /\ probe = NoProbe
    /\ session = NoSession
    /\ pair = NoPair

\* last_upd after the updates of log (a later entry of a track replaces an earlier one)
RECURSIVE Record(_, _)
Record(f, log) ==
    IF log = <<>> THEN f
    ELSE LET u == Head(log)
             v == [hits |-> u.hits_after, quality_score |-> u.quality_after]
         IN  Record([id \in (DOMAIN f) \cup {u.track_id} |->
                        IF id = u.track_id THEN v ELSE f[id]], Tail(log))

\* f with the observation v added to the track id
Observation(f, id, v) ==
    [i \in (DOMAIN f) \cup {id} |->
        IF i # id THEN f[i]
        ELSE IF id \in DOMAIN f THEN Append(f[id], v) ELSE <<v>>]

\* observed after the Track.update calls of log, which were given detections
\* of D in the update call number n
RECURSIVE ObserveUpdates(_, _, _, _)
ObserveUpdates(f, log, D, n) ==
    IF log = <<>> THEN f
    ELSE ObserveUpdates(Observation(f, Head(log).track_id,
                                    [bbox       |-> D[Head(log).detection].bbox,
                                     confidence |-> D[Head(log).detection].confidence,
                                     call       |-> n]),
                        Tail(log), D, n)

\* observed after the Track(...) constructions of created, in the update call
\* number n
RECURSIVE ObserveCreated(_, _, _)
ObserveCreated(f, created, n) ==
    IF created = <<>> THEN f
    ELSE ObserveCreated(Observation(f, Head(created).track_id,
                                    [bbox       |-> Head(created).track.bbox,
                                     confidence |-> Head(created).track.confidence,
                                     call       |-> n]),
                        Tail(created), n)

\* one call EnhancedTracker.update(detections)
Update(detections) ==
    /\ status = "ready"
    /\ \E o \in update(tracks, next_id, detections, scipy_available) :
          /\ tracks' = o.tracks
          /\ next_id' = o.next_id
          /\ status' = o.status
          /\ call' = o.call
          /\ created_ids' = created_ids \o
                 [k \in 1..Len(o.call.created) |-> o.call.created[k].track_id]
          /\ expired' = expired \cup o.expired
          /\ last_upd' = Record(last_upd, o.call.updates)
          /\ observed' = ObserveCreated(ObserveUpdates(observed, o.call.updates, detections,
                                                       frame_count + 1),
                                        o.call.created, frame_count + 1)
    /\ frame_count' = frame_count + 1
    /\ fed' = Append(fed, detections)
    /\ UNCHANGED scipy_available

\* warm-up calls, then calls with any list of at most MaxDets detections
Next ==
    /\ frame_count < MaxFrames
    /\ \E detections \in (IF frame_count < WarmUp THEN WarmLists ELSE DetLists) :
          Update(detections)
    /\ UNCHANGED <<twin, probe, session, pair>>

Spec == Init /\ [][Next]_vars

\* the life of one object over MaxFramesLife calls
NextLife ==
    /\ frame_count < MaxFramesLife
    /\ \E detections \in LifeLists : Update(detections)
    /\ UNCHANGED <<twin, probe, session, pair>>

SpecLife == Init /\ [][NextLife]_vars

(***************************************************************************)
(* EnhancedTracker.iou on any two boxes                                    *)
(***************************************************************************)
\* every box with integer coordinates in 0..MaxCoord, also the empty and the
\* inverted ones
AnyBoxes == {<<x1, y1, x2, y2>> : x1 \in 0..MaxCoord, y1 \in 0..MaxCoord,
                                  x2 \in 0..MaxCoord, y2 \in 0..MaxCoord}

\* a new tracker and two boxes
InitIou ==
    /\ tracks = <<>>
    /\ next_id = 1
    /\ frame_count = 0
    /\ scipy_available = TRUE
    /\ status = "ready"
    /\ call = NoCall
    /\ created_ids = <<>>
    /\ expired = {}
    /\ last_upd = <<>>
    /\ fed = <<>>
    /\ observed = <<>>
    /\ twin = NoTwin
    /\ probe \in [bbox1 : AnyBoxes, bbox2 : AnyBoxes, called : {FALSE}, result : {0}]
    /\ session = NoSession
    /\ pair = NoPair

\* the call self.iou(bbox1, bbox2)
CallIou ==
    /\ ~probe.called
    /\ probe' = [probe EXCEPT !.called = TRUE, !.result = iou(probe.bbox1, probe.bbox2)]
    /\ UNCHANGED <<tracks, next_id, frame_count, scipy_available, status, call,
                   created_ids, expired, last_upd, fed, observed, twin, session, pair>>

NextIou == CallIou

SpecIou == InitIou /\ [][NextIou]_vars

(***************************************************************************)
(* A long life of one object                                               *)
(***************************************************************************)
\* the lists fed under SpecLong: one object that may move or fade
LongLists ==
    { <<Detection(BoxA, 900, 0)>>,
      <<Detection(BoxB, 900, 0)>>,
      <<Detection(BoxA, 100, 0)>> }

\* MaxFramesLong calls: the first and the last LongFree of them with any list
\* of LongLists, those between with the object at rest
NextLong ==
    /\ frame_count < MaxFramesLong
    /\ \E detections \in LongLists :
          /\ (frame_count >= LongFree /\ frame_count < MaxFramesLong - LongFree)
                => detections = <<Detection(BoxA, 900, 0)>>
          /\ Update(detections)
    /\ UNCHANGED <<twin, probe, session, pair>>

SpecLong == Init /\ [][NextLong]_vars

(***************************************************************************)
(* Two runs over the same input                                            *)
(***************************************************************************)
\* the lists fed under SpecTwin; two equal detections make two equal tracks,
\* for which the assignment has several answers of least cost
TwinLists ==
    { <<>>,
      <<Detection(BoxA, 900, 0)>>,
      <<Detection(BoxA, 900, 0), Detection(BoxA, 900, 0)>>,
      <<Detection(BoxA, 900, 0), Detection(BoxB, 900, 0)>> }

\* faulty variant (sensitivity test): the id counter is shared by all trackers
\* of the process
EnhancedTracker_init_Shared(process) ==
    [tracks |-> <<>>, frame_count |-> 0, next_id |-> process.next_id]

\* EnhancedTracker.__init__: the fields of a new tracker; process is what the
\* Python process holds when the tracker is constructed
EnhancedTracker_init(process) ==
    [tracks |-> <<>>, frame_count |-> 0, next_id |-> 1]

\* position of x in the sequence s
IndexOf(s, x) == CHOOSE i \in 1..Len(s) : s[i] = x

\* what the stages of the call c asked linear_sum_assignment (a cost matrix)
\* and what it answered (pairs of row and column)
Answers(c) ==
    { << CostMatrix(c.pre, c.detections, c.stages[s].tracks, c.stages[s].detections),
         [k \in 1..Len(c.stages[s].result.proposed) |->
             << IndexOf(c.stages[s].tracks, c.stages[s].result.proposed[k][1]),
                IndexOf(c.stages[s].detections, c.stages[s].result.proposed[k][2]) >>] >>
      : s \in 1..Len(c.stages) }

\* linear_sum_assignment is a function: the same cost matrix gets the same answer
IsFunction(memo) == \A x, y \in memo : x[1] = y[1] => x[2] = y[2]

\* one update call of the first run
FirstRun ==
    /\ twin.run = 1
    /\ frame_count < MaxFramesTwin
    /\ \E detections \in TwinLists : Update(detections)
    /\ IsFunction(twin.memo \cup Answers(call'))
    /\ twin' = [twin EXCEPT !.fed = fed',
                            !.out = Append(@, [tracks |-> tracks', status |-> status']),
                            !.memo = @ \cup Answers(call')]
    /\ UNCHANGED <<probe, session, pair>>

\* a second tracker is constructed in the same configuration
Restart ==
    /\ twin.run = 1
    /\ frame_count >= 1
    /\ LET t == EnhancedTracker_init([next_id |-> next_id])
       IN  /\ tracks' = t.tracks
           /\ next_id' = t.next_id
           /\ frame_count' = t.frame_count
    /\ status' = "ready"
    /\ call' = NoCall
    /\ created_ids' = <<>>
    /\ expired' = {}
    /\ last_upd' = <<>>
    /\ fed' = <<>>
    /\ observed' = <<>>
    /\ twin' = [twin EXCEPT !.run = 2]
    /\ UNCHANGED <<scipy_available, probe, session, pair>>

\* one update call of the second run, with the input of the first
Replay ==
    /\ twin.run = 2
    /\ frame_count < Len(twin.fed)
    /\ Update(twin.fed[frame_count + 1])
    /\ IsFunction(twin.memo \cup Answers(call'))
    /\ twin' = [twin EXCEPT !.memo = @ \cup Answers(call')]
    /\ UNCHANGED <<probe, session, pair>>

NextTwin == FirstRun \/ Restart \/ Replay

SpecTwin == Init /\ [][NextTwin]_vars

(***************************************************************************)
(* TrackingService.detect_and_track                                        *)
(***************************************************************************)
BoxE == <<40, 40, 50, 50>>
\* a malformed box: x2 = x1 and y2 = y1
BoxBad == <<5, 5, 5, 5>>

\* what the YOLO model finds in a frame, under SpecSession: three objects far
\* from each other (BoxA, BoxD, BoxE) with different confidences, a faint one
\* and a malformed one
SessionLists ==
    { <<>>,
      <<Detection(BoxA, 900, 0), Detection(BoxD, 900, 0)>>,
      <<Detection(BoxE, 900, 0), Detection(BoxA, 900, 0)>>,
      <<Detection(BoxE, 900, 0), Detection(BoxD, 900, 0)>>,
      <<Detection(BoxA, 600, 0), Detection(BoxD, 900, 0), Detection(BoxE, 700, 0)>>,
      <<Detection(BoxA, 100, 0), Detection(BoxD, 900, 0)>>,
      <<Detection(BoxBad, 900, 0), Detection(BoxA, 900, 0)>> }

\* detect_objects_in_frame: the boxes of the model's result whose confidence
\* is not below the threshold, in the model's order
detect_objects_in_frame(boxes) ==
    LET Kept(d) == ~(d.confidence < confidence_threshold)
    IN  SelectSeq(boxes, Kept)

\* faulty variant (sensitivity test): the first detections, in the order given
filter_detections_Unsorted(detections, max_tracks_per_frame) ==
    SubSeq(detections, 1, Min(Len(detections), max_tracks_per_frame))

\* filter_detections, from the positions sorted by descending confidence
FirstSorted(detections, order, max_detections) ==
    [k \in 1..max_detections |-> detections[order[k]]]

\* TrackingService.filter_detections
filter_detections(detections, max_tracks_per_frame) ==
    FirstSorted(detections, SortByConfidence(detections, Positions(Len(detections))),
                Min(Len(detections), max_tracks_per_frame))

\* detect_and_track: tracked_objects[:max_tracks_per_frame] when the list is longer
Truncated(tracked_objects, max_tracks_per_frame) ==
    IF Len(tracked_objects) > max_tracks_per_frame
    THEN SubSeq(tracked_objects, 1, max_tracks_per_frame)
    ELSE tracked_objects

\* detect_and_track: the entry of one track in a frame result
track_data(track) ==
    [ track_id   |-> track.track_id,
      bbox       |-> track.bbox,
      confidence |-> track.confidence,
      class_id   |-> track.class_id,
      hits       |-> track.hits,
      age        |-> track.age,
      state      |-> track.state,
      quality    |-> track.quality_score ]

\* detect_and_track: the entries of the tracks with hits >= min_track_duration
StableTracks(tracked_objects) ==
    LET Stable(t) == t.hits >= min_track_duration
        sel == SelectSeq(tracked_objects, Stable)
    IN  [k \in 1..Len(sel) |-> track_data(sel[k])]

\* detect_and_track: the result of one processed frame
frame_result(frame_idx, tracked_objects, max_tracks_per_frame) ==
    [ frame_number |-> frame_idx,
      timestamp    |-> frame_idx * 500,
      tracks       |-> StableTracks(Truncated(tracked_objects, max_tracks_per_frame)) ]

\* all_tracks: the entries of all frame results, in order
RECURSIVE all_tracks(_)
all_tracks(frame_results) ==
    IF frame_results = <<>> THEN <<>>
    ELSE Head(frame_results).tracks \o all_tracks(Tail(frame_results))

\* the greatest of a non-empty finite set of integers
MaxOf(S) == CHOOSE x \in S : \A y \in S : y <= x

\* the track ids of a list of entries
IdsOf(entries) == {entries[k].track_id : k \in 1..Len(entries)}

\* calculate_tracking_stats, from the entries of all frame results
StatsOf(entries, ids) ==
    [ total_tracks       |-> MaxOf(ids \cup {0}),
      total_detections   |-> Len(entries),
      avg_track_duration |-> IF ids = {} THEN 0
                             ELSE (Len(entries) * 1000) \div Cardinality(ids),
      track_durations    |-> [id \in ids |->
                                Cardinality({k \in 1..Len(entries) : entries[k].track_id = id})] ]

\* TrackingService.calculate_tracking_stats
calculate_tracking_stats(frame_results) ==
    StatsOf(all_tracks(frame_results), IdsOf(all_tracks(frame_results)))

\* detect_and_track: the aggregated result
AggregateResult(n, frame_results) ==
    [ total_frames   |-> n,
      total_tracks   |-> Cardinality(IdsOf(all_tracks(frame_results))),
      frame_results  |-> frame_results,
      tracking_stats |-> calculate_tracking_stats(frame_results) ]

\* get_dummy_tracking_results: the frame results
DummyFrames(n) ==
    LET idx == SortedSeq({i \in 0..(n - 1) : i % DummyStride = 0})
    IN  [k \in 1..Len(idx) |->
            [ frame_number |-> idx[k],
              timestamp    |-> idx[k] * 500,
              tracks       |-> << [ track_id |-> 1, bbox |-> <<100, 100, 200, 200>>,
                                    confidence |-> 800, class_id |-> 0, hits |-> 3,
                                    age |-> 3, state |-> "confirmed", quality |-> 0 ] >> ]]

\* TrackingService.get_dummy_tracking_results
get_dummy_tracking_results(n) ==
    [ total_frames   |-> n,
      total_tracks   |-> 1,
      frame_results  |-> DummyFrames(n),
      tracking_stats |-> [ total_tracks       |-> 1,
                           total_detections   |-> Len(DummyFrames(n)),
                           avg_track_duration |-> Len(DummyFrames(n)) * 1000,
                           track_durations    |-> [id \in {1} |-> Len(DummyFrames(n))] ] ]

\* a new TrackingService (with the YOLO model loaded or not) whose
\* detect_and_track has just been called with n frames
InitSession ==
    /\ tracks = <<>>
    /\ next_id = 1
    /\ frame_count = 0
    /\ scipy_available \in BOOLEAN
    /\ status = "ready"
    /\ call = NoCall
    /\ created_ids = <<>>
    /\ expired = {}
    /\ last_upd = <<>>
    /\ fed = <<>>
    /\ observed = <<>>
    /\ twin = NoTwin
    /\ probe = NoProbe
    /\ session \in [ phase : {"loop"}, YOLO_AVAILABLE : BOOLEAN, n : 0..MaxFramesSession,
                     max_tracks_per_frame : 1..MaxPerFrame, frame_idx : {0},
                     detector_calls : {<<>>}, update_calls : {<<>>}, returned : {<<>>},
                     frame_results : {<<>>}, result : {<<>>} ]
    /\ pair = NoPair

\* faulty variant (sensitivity test): every frame is processed
Sampled_All(frame_idx) == TRUE

\* detect_and_track: the frame is not skipped
Sampled(frame_idx) == ~(frame_idx % frame_skip # 0)

\* detect_and_track without the YOLO model: the dummy result
DummyResults ==
    /\ session.phase = "loop"
    /\ ~session.YOLO_AVAILABLE
    /\ session' = [session EXCEPT !.phase = "done",
                                  !.result = get_dummy_tracking_results(session.n)]
    /\ UNCHANGED <<tracks, next_id, frame_count, scipy_available, status, call,
                   created_ids, expired, last_upd, fed, observed, twin, probe, pair>>

\* detect_and_track, one frame that is skipped
SkipFrame ==
    /\ session.phase = "loop"
    /\ session.YOLO_AVAILABLE
    /\ session.frame_idx < session.n
    /\ ~Sampled(session.frame_idx)
    /\ session' = [session EXCEPT !.frame_idx = @ + 1]
    /\ UNCHANGED <<tracks, next_id, frame_count, scipy_available, status, call,
                   created_ids, expired, last_upd, fed, observed, twin, probe, pair>>

\* the session after the frame whose detections are detections: when update
\* returned, the frame result is appended; when it does not return, the
\* session stays in the call
AfterFrame(se, detections, filtered, returns, tracked_objects) ==
    IF returns
    THEN [se EXCEPT !.frame_idx = @ + 1,
                    !.detector_calls = Append(@, se.frame_idx),
                    !.update_calls = Append(@, [frame_idx |-> se.frame_idx,
                                                detected |-> detections,
                                                passed |-> filtered]),
                    !.returned = Append(@, tracked_objects),
                    !.frame_results = Append(@, frame_result(se.frame_idx, tracked_objects,
                                                             se.max_tracks_per_frame))]
    ELSE [se EXCEPT !.phase = "hung",
                    !.detector_calls = Append(@, se.frame_idx),
                    !.update_calls = Append(@, [frame_idx |-> se.frame_idx,
                                                detected |-> detections,
                                                passed |-> filtered])]

\* detect_and_track, one frame that is processed: detection, filter, update,
\* truncation, frame result
ProcessFrame ==
    /\ session.phase = "loop"
    /\ session.YOLO_AVAILABLE
    /\ session.frame_idx < session.n
    /\ Sampled(session.frame_idx)
    /\ \E boxes \in SessionLists :
          /\ Update(filter_detections(detect_objects_in_frame(boxes),
                                      session.max_tracks_per_frame))
          /\ session' = AfterFrame(session, detect_objects_in_frame(boxes),
                                   filter_detections(detect_objects_in_frame(boxes),
                                                     session.max_tracks_per_frame),
                                   status' = "ready", tracks')
    /\ UNCHANGED <<twin, probe, pair>>

\* detect_and_track, after the last frame: the aggregated result is returned
Finish ==
    /\ session.phase = "loop"
    /\ session.YOLO_AVAILABLE
    /\ session.frame_idx = session.n
    /\ session' = [session EXCEPT !.phase = "done",
                                  !.result = AggregateResult(session.n, session.frame_results)]
    /\ UNCHANGED <<tracks, next_id, frame_count, scipy_available, status, call,
                   created_ids, expired, last_upd, fed, observed, twin, probe, pair>>

NextSession == DummyResults \/ SkipFrame \/ ProcessFrame \/ Finish

SpecSession == InitSession /\ [][NextSession]_vars

(***************************************************************************)
(* Several trackers in one process                                         *)
(***************************************************************************)
\* the most update calls made on one tracker under SpecPair
MaxFramesPair == 2

\* the most trackers constructed under SpecPair
MaxTrackers == 2

\* the lists given under SpecPair: nothing, one object, two overlapping
\* objects, an object elsewhere
PairLists ==
    { <<>>,
      <<Detection(BoxA, 900, 0)>>,
      <<Detection(BoxA, 900, 0), Detection(BoxB, 900, 0)>>,
      <<Detection(BoxD, 900, 0)>> }

\* what the process holds when a tracker is constructed: the id counter of
\* the tracker constructed last, if there is one
Process(inst) == [next_id |-> IF inst = <<>> THEN 1 ELSE inst[Len(inst)].next_id]

\* faulty variant (sensitivity test): the service takes the tracker the
\* process holds
TrackingService_init_Shared(process, max_objects_per_frame) ==
    [ tracker |-> [tracks |-> <<>>, frame_count |-> 0, next_id |-> process.next_id],
      max_tracks_per_frame |-> max_objects_per_frame ]

\* TrackingService.__init__: the service constructs a tracker of its own
TrackingService_init(process, max_objects_per_frame) ==
    [ tracker |-> EnhancedTracker_init(process),
      max_tracks_per_frame |-> max_objects_per_frame ]

\* a tracker object, bare (max_tracks_per_frame = 0) or held by a
\* TrackingService, with the active sets its update calls returned
Instance(tracker, max_tracks_per_frame) ==
    [ tracks |-> tracker.tracks, next_id |-> tracker.next_id,
      frame_count |-> tracker.frame_count, status |-> "ready", out |-> <<>>,
      max_tracks_per_frame |-> max_tracks_per_frame ]

\* EnhancedTracker(...) or TrackingService(...) in a process that holds process
NewInstance(process, max_objects_per_frame) ==
    IF max_objects_per_frame = 0
    THEN Instance(EnhancedTracker_init(process), 0)
    ELSE Instance(TrackingService_init(process, max_objects_per_frame).tracker,
                  TrackingService_init(process, max_objects_per_frame).max_tracks_per_frame)

\* the list that reaches update: a bare tracker is given the list itself, a
\* service gives its tracker filter_detections(detect_objects_in_frame(frame))
PassedTo(t, boxes) ==
    IF t.max_tracks_per_frame = 0 THEN boxes
    ELSE filter_detections(detect_objects_in_frame(boxes), t.max_tracks_per_frame)

\* the tracker t after an update call with the outcome o
AfterCall(t, o) ==
    [t EXCEPT !.tracks = o.tracks,
              !.next_id = o.next_id,
              !.frame_count = @ + 1,
              !.status = o.status,
              !.out = IF o.status = "ready" THEN Append(@, o.tracks) ELSE @]

\* the same call on the tracker that runs alone: with the outcome o if the
\* call can have it there, with another of its outcomes otherwise
AloneCall(a, o, outcomes) ==
    IF o \in outcomes THEN AfterCall(a, o) ELSE AfterCall(a, CHOOSE x \in outcomes : TRUE)

\* one more tracker or service is constructed; alone is the same object
\* constructed in a process of its own
Construct ==
    /\ Len(pair.inst) < MaxTrackers
    /\ \E max_objects_per_frame \in 0..1 :
          pair' = [ inst  |-> Append(pair.inst,
                                     NewInstance(Process(pair.inst), max_objects_per_frame)),
                    alone |-> Append(pair.alone,
                                     NewInstance(Process(<<>>), max_objects_per_frame)) ]
    /\ UNCHANGED <<tracks, next_id, frame_count, scipy_available, status, call,
                   created_ids, expired, last_upd, fed, observed, twin, probe, session>>

\* one update call on the tracker i, between the calls on the others
PairUpdate(i, boxes) ==
    /\ pair.inst[i].status = "ready"
    /\ pair.inst[i].frame_count < MaxFramesPair
    /\ \E o \in update(pair.inst[i].tracks, pair.inst[i].next_id,
                        PassedTo(pair.inst[i], boxes), scipy_available) :
          pair' = [ inst  |-> [pair.inst EXCEPT ![i] = AfterCall(@, o)],
                    alone |-> [pair.alone EXCEPT ![i] =
                                  AloneCall(@, o, update(@.tracks, @.next_id,
                                                         PassedTo(@, boxes),
                                                         scipy_available))] ]
    /\ UNCHANGED <<tracks, next_id, frame_count, scipy_available, status, call,
                   created_ids, expired, last_upd, fed, observed, twin, probe, session>>

NextPair ==
    \/ Construct
    \/ \E i \in 1..Len(pair.inst) : \E boxes \in PairLists : PairUpdate(i, boxes)

SpecPair == Init /\ [][NextPair]_vars

(***************************************************************************)
(* Properties                                                              *)
(***************************************************************************)
\* number of times x occurs in the sequence s
Count(s, x) == Cardinality({i \in DOMAIN s : s[i] = x})

\* the detections of the last call
D == call.detections

IsHigh(d) == D[d].confidence >= 500

\* the updates of the last call, as positions in call.updates
Updates == 1..Len(call.updates)

\* number of times Track.update was applied to the track at position p
UpdatesOf(p) == Cardinality({k \in Updates : call.updates[k].track = p})

\* number of times Track.mark_missed was applied to the track at position p
MissesOf(p) == Cardinality({k \in 1..Len(call.missed) : call.missed[k] = p})

\* C1: the ids of the created tracks are strictly increasing in creation order
\* (in one call and across calls); no two active tracks share an id, every
\* active id was created, and the id of a track that reached max_age was given
\* out once only.
C1_IdMonotonic ==
    /\ \A i, j \in 1..Len(created_ids) : i < j => created_ids[i] < created_ids[j]
    /\ \A p, q \in 1..Len(tracks) : p # q => tracks[p].track_id # tracks[q].track_id
    /\ \A p \in 1..Len(tracks) : Count(created_ids, tracks[p].track_id) = 1
    /\ \A e \in expired : Count(created_ids, e.track_id) = 1

\* two tracks created by one call, after a track with a smaller id was evicted
C1_Witness ==
    /\ Len(call.created) = 2
    /\ call.created[1].track_id < call.created[2].track_id
    /\ \E e \in expired : e.track_id < call.created[1].track_id

\* C2: a track whose time_since_update reached max_age is in no active set
\* returned from then on, and its id is never given to a later track: a
\* detection equal to its last box creates a track with another id.
C2_Eviction ==
    /\ \A e \in expired : \A p \in 1..Len(tracks) : tracks[p].track_id # e.track_id
    /\ \A e \in expired : Count(created_ids, e.track_id) <= 1
    /\ \A e \in expired : \A k \in 1..Len(call.created) :
          (\A p \in 1..Len(call.pre) : call.pre[p].track_id # e.track_id)
              => call.created[k].track_id # e.track_id

\* a confirmed track was evicted by an earlier call, and this call creates a
\* track with a greater id from a detection equal to the evicted track's box
C2_Witness ==
    \E e \in expired :
        /\ e.state = "confirmed"
        /\ \A p \in 1..Len(call.pre) : call.pre[p].track_id # e.track_id
        /\ Len(call.created) = 1
        /\ D[call.created[1].detection].bbox = e.bbox
        /\ call.created[1].track_id > e.track_id
        /\ \E p \in 1..Len(tracks) : tracks[p].track_id = call.created[1].track_id

\* C3: an active track is confirmed exactly when it was updated at least once
\* and hits >= 3 and quality_score > 0.6 held at the end of its last
\* Track.update; otherwise it is tentative.
C3_ConfirmationRule ==
    \A p \in 1..Len(tracks) :
        /\ tracks[p].state \in {"confirmed", "tentative"}
        /\ tracks[p].state = "confirmed" <=>
              /\ tracks[p].track_id \in DOMAIN last_upd
              /\ last_upd[tracks[p].track_id].hits >= 3
              /\ last_upd[tracks[p].track_id].quality_score > 600

\* a track that was confirmed at the start of the call is tentative after it,
\* with hits >= 3 and a quality of at most 0.6 at its update
C3_Witness ==
    \E p \in 1..Len(tracks) : \E q \in 1..Len(call.pre) :
        /\ call.pre[q].track_id = tracks[p].track_id
        /\ call.pre[q].state = "confirmed"
        /\ tracks[p].state = "tentative"
        /\ tracks[p].hits >= 3
        /\ tracks[p].time_since_update = 0
        /\ last_upd[tracks[p].track_id].quality_score <= 600

\* C4: every pair a stage applied with Track.update has an IoU (of the track's
\* box before the update and the detection's box) above iou_threshold, and a
\* pair the assignment proposed with an IoU of at most iou_threshold is not
\* matched: its track and its detection are in the unmatched lists and no
\* Track.update of the stage uses it.
C4_MatchThreshold ==
    /\ \A k \in Updates :
          iou(call.updates[k].bbox_before, D[call.updates[k].detection].bbox) > 300
    /\ \A s \in 1..Len(call.stages) :
          \A k \in 1..Len(call.stages[s].result.proposed) :
              LET pr == call.stages[s].result.proposed[k]
                  r  == call.stages[s].result
              IN  iou(call.pre[pr[1]].bbox, D[pr[2]].bbox) <= 300 =>
                     /\ \E i \in 1..Len(r.unmatched_tracks) : r.unmatched_tracks[i] = pr[1]
                     /\ \E i \in 1..Len(r.unmatched_detections) : r.unmatched_detections[i] = pr[2]
                     /\ \A i \in 1..Len(r.matched) : r.matched[i] # pr
                     /\ \A i \in Updates :
                           call.updates[i].stage = call.stages[s].stage =>
                              /\ call.updates[i].track # pr[1]
                              /\ call.updates[i].detection # pr[2]

\* the assignment proposed a pair whose IoU is exactly iou_threshold, which was
\* rejected, and the same call applied a match
C4_Witness ==
    /\ call.updates # <<>>
    /\ \E s \in 1..Len(call.stages) :
          \E k \in 1..Len(call.stages[s].result.proposed) :
              LET pr == call.stages[s].result.proposed[k]
              IN  iou(call.pre[pr[1]].bbox, D[pr[2]].bbox) = 300

NoDuplicates(s) == \A i, j \in 1..Len(s) : i # j => s[i] # s[j]

\* C5: every association that returns gives a matching in which each track and
\* each detection occurs at most once, unmatched_tracks is the argument tracks
\* without the matched ones and unmatched_detections the argument detections
\* without the matched ones, nothing listed twice; with no tracks every
\* detection is unmatched, with no detections every track is.
C5_AssociatePartition ==
    \A s \in 1..Len(call.stages) :
        LET r  == call.stages[s].result
            tl == call.stages[s].tracks
            dl == call.stages[s].detections
            mt == {r.matched[k][1] : k \in 1..Len(r.matched)}
            md == {r.matched[k][2] : k \in 1..Len(r.matched)}
        IN  r.returns =>
              /\ \A i, j \in 1..Len(r.matched) :
                    i # j => /\ r.matched[i][1] # r.matched[j][1]
                             /\ r.matched[i][2] # r.matched[j][2]
              /\ NoDuplicates(r.unmatched_tracks)
              /\ NoDuplicates(r.unmatched_detections)
              /\ Range(r.unmatched_tracks) = Range(tl) \ mt
              /\ Range(r.unmatched_detections) = Range(dl) \ md
              /\ mt \subseteq Range(tl)
              /\ md \subseteq Range(dl)
              /\ (tl = <<>> => r.matched = <<>> /\ r.unmatched_detections = dl
                                /\ r.unmatched_tracks = <<>>)
              /\ (dl = <<>> => r.matched = <<>> /\ r.unmatched_tracks = tl
                                /\ r.unmatched_detections = <<>>)

\* C6: in an update call no track of the active set at its start gets more than
\* one of Track.update and Track.mark_missed, and when the call returns each
\* got exactly one.
C6_OneOfUpdateOrMiss ==
    \A p \in 1..Len(call.pre) :
        /\ UpdatesOf(p) + MissesOf(p) <= 1
        /\ call.returned => UpdatesOf(p) + MissesOf(p) = 1

\* a call that updated one track in stage C and marked another track of its
\* start set missed
C6_Witness ==
    /\ call.returned
    /\ \E k \in Updates : call.updates[k].stage = "C"
    /\ \E p \in 1..Len(call.pre) : MissesOf(p) = 1
    /\ \E p \in 1..Len(call.pre) : UpdatesOf(p) = 1

\* C7: in an update call that returns, every high-confidence detection is
\* either applied to exactly one track in stage A or B or creates exactly one
\* track, never both; the number of created tracks is the number of
\* high-confidence detections minus the number of stage A and stage B matches;
\* a new track is constructed with hits = 1, age = 0, state tentative.
C7_HighConsumedOnce ==
    call.returned =>
       LET high   == {d \in 1..Len(D) : IsHigh(d)}
           ab     == {k \in Updates : call.updates[k].stage \in {"A", "B"}}
           used(d) == Cardinality({k \in ab : call.updates[k].detection = d})
                      + Cardinality({k \in 1..Len(call.created) :
                                        call.created[k].detection = d})
       IN  /\ \A d \in high : used(d) = 1
           /\ Len(call.created) = Cardinality(high) - Cardinality(ab)
           /\ \A k \in 1..Len(call.created) :
                 /\ call.created[k].track.hits = 1
                 /\ call.created[k].track.age = 0
                 /\ call.created[k].track.state = "tentative"

\* C8: a detection with confidence < 0.5 creates no track, and the track it is
\* applied to was confirmed at the start of the call and was not updated by
\* stage A (it is applied in stage C).
C8_LowConfidence ==
    /\ \A k \in 1..Len(call.created) : IsHigh(call.created[k].detection)
    /\ \A k \in Updates :
          ~IsHigh(call.updates[k].detection) =>
             /\ call.pre[call.updates[k].track].state = "confirmed"
             /\ call.updates[k].stage = "C"
             /\ \A j \in Updates :
                   call.updates[j].stage = "A" => call.updates[j].track # call.updates[k].track

\* a low-confidence detection updated a track while another low-confidence
\* detection of the same call was dropped
C8_Witness ==
    /\ call.returned
    /\ \E k \in Updates : ~IsHigh(call.updates[k].detection)
    /\ \E d \in 1..Len(D) :
          /\ ~IsHigh(d)
          /\ \A k \in Updates : call.updates[k].detection # d

\* the track at position p of the start set was confirmed and no
\* high-confidence detection was applied to it
UnmatchedConfirmed(p) ==
    /\ call.pre[p].state = "confirmed"
    /\ \A k \in Updates :
          call.updates[k].track = p => ~IsHigh(call.updates[k].detection)

\* a low-confidence detection overlaps the track at position p above iou_threshold
LowOverlap(p) ==
    \E d \in 1..Len(D) : ~IsHigh(d) /\ iou(call.pre[p].bbox, D[d].bbox) > 300

\* stage C applied a low-confidence detection to the track at position p, it was
\* not marked missed, and after the call its time_since_update is 0 and its
\* hits grew by one
Recovered(p) ==
    /\ \E k \in Updates :
          /\ call.updates[k].track = p
          /\ call.updates[k].stage = "C"
          /\ ~IsHigh(call.updates[k].detection)
    /\ MissesOf(p) = 0
    /\ \E q \in 1..Len(tracks) :
          /\ tracks[q].track_id = call.pre[p].track_id
          /\ tracks[q].time_since_update = 0
          /\ tracks[q].hits = call.pre[p].hits + 1

\* C9 as stated in the specification: after a call, every confirmed track that no high-confidence
\* detection matched and that a low-confidence detection overlaps above
\* iou_threshold was recovered by stage C.
C9_RecoveryAsClaimed ==
    call.returned =>
       \A p \in 1..Len(call.pre) : (UnmatchedConfirmed(p) /\ LowOverlap(p)) => Recovered(p)

\* C9, restricted: the same, for a track that is the only confirmed track no
\* high-confidence detection matched.
C9_Recovery ==
    call.returned =>
       \A p \in 1..Len(call.pre) :
          ( /\ UnmatchedConfirmed(p)
            /\ LowOverlap(p)
            /\ \A q \in 1..Len(call.pre) : UnmatchedConfirmed(q) => q = p ) => Recovered(p)

\* a confirmed track, alone unmatched by stage A while another confirmed track
\* was matched by it, is recovered by a low-confidence detection
C9_Witness ==
    /\ call.returned
    /\ \E k \in Updates : call.updates[k].stage = "A"
    /\ \E p \in 1..Len(call.pre) :
          /\ UnmatchedConfirmed(p)
          /\ LowOverlap(p)
          /\ \A q \in 1..Len(call.pre) : UnmatchedConfirmed(q) => q = p
          /\ Recovered(p)

\* the first n calls were each fed the same single high-confidence detection
SameDetectionFed(n) ==
    /\ Len(fed) = n
    /\ Len(fed[1]) = 1
    /\ fed[1][1].confidence >= 500
    /\ \A i \in 1..n : fed[i] = fed[1]

\* the tracker holds exactly one track, with id 1, and never created another
OneTrack(hits, state) ==
    /\ status = "ready"
    /\ Len(tracks) = 1
    /\ tracks[1].track_id = 1
    /\ tracks[1].hits = hits
    /\ tracks[1].state = state
    /\ created_ids = <<1>>
    /\ next_id = 2

\* C10: from an empty tracker, the same single high-confidence detection fed
\* in three consecutive calls gives one track with one id: tentative with hits
\* = 1 after call 1, tentative with hits = 2 after call 2, confirmed with hits =
\* 3 and quality_score > 0.6 after call 3.
C10_Scenario1 ==
    /\ SameDetectionFed(1) => OneTrack(1, "tentative")
    /\ SameDetectionFed(2) => OneTrack(2, "tentative")
    /\ SameDetectionFed(3) =>
          /\ OneTrack(3, "confirmed")
          /\ last_upd[1].quality_score > 600
          /\ tracks[1].quality_score > 600

\* box (0,0,10,10) with confidence 0.9 was fed three times and the track is confirmed
C10_Witness ==
    /\ fed = << <<Detection(BoxA, 900, 0)>>, <<Detection(BoxA, 900, 0)>>,
                <<Detection(BoxA, 900, 0)>> >>
    /\ Len(tracks) = 1
    /\ tracks[1].state = "confirmed"
    /\ tracks[1].hits = 3

\* the last call started with one track and was given two detections that both
\* overlap the track's box above iou_threshold
OneTrackTwoOverlaps ==
    /\ Len(call.pre) = 1
    /\ Len(D) = 2
    /\ \A d \in 1..2 : iou(call.pre[1].bbox, D[d].bbox) > 300

\* detection m was applied to the only track and detection o was not: o created
\* one track if its confidence is >= 0.5, and otherwise left the track set alone
MatchedAndOther(m, o) ==
    /\ \E k \in Updates : call.updates[k].detection = m /\ call.updates[k].track = 1
    /\ \A k \in Updates : call.updates[k].detection # o
    /\ iou(call.pre[1].bbox, D[m].bbox) >= iou(call.pre[1].bbox, D[o].bbox)
    /\ IsHigh(o) => /\ Len(call.created) = 1
                    /\ call.created[1].detection = o
                    /\ Len(tracks) = 2
    /\ ~IsHigh(o) => /\ call.created = <<>>
                     /\ Len(tracks) = 1

\* C11: when a call starts with one track and gets two detections that both
\* overlap it above iou_threshold, the call returns having applied exactly one
\* Track.update to the track, with the detection of higher IoU; the other
\* detection creates a new track if its confidence is >= 0.5 and is dropped
\* otherwise.
C11_TwoDetectionsOneTrack ==
    OneTrackTwoOverlaps =>
       /\ call.returned
       /\ Len(call.updates) = 1
       /\ MatchedAndOther(1, 2) \/ MatchedAndOther(2, 1)

BoxesOf(obs) == [k \in 1..Len(obs) |-> obs[k].bbox]

\* the confidences of a sequence of observations
ConfidencesOf(obs) == [k \in 1..Len(obs) |-> obs[k].confidence]

\* the last 15 entries of s, in order
Last15(s) == IF Len(s) <= 15 THEN s ELSE [k \in 1..15 |-> s[Len(s) - 15 + k]]

\* C13: for every active track history and confidence_history have the same
\* length, between 1 and 15, and hold the boxes and the confidences of the 15
\* most recent observations of the track, in order (fewer if the track has
\* fewer).
C13_HistoryCap ==
    \A p \in 1..Len(tracks) :
        /\ Len(tracks[p].history) = Len(tracks[p].confidence_history)
        /\ Len(tracks[p].history) >= 1
        /\ Len(tracks[p].history) <= 15
        /\ tracks[p].history = Last15(BoxesOf(observed[tracks[p].track_id]))
        /\ tracks[p].confidence_history = Last15(ConfidencesOf(observed[tracks[p].track_id]))

\* a track with more than 16 observations whose first box differs from the
\* oldest box its history keeps and whose last confidence differs from the
\* oldest confidence it keeps
C13_Witness ==
    \E p \in 1..Len(tracks) :
        /\ Len(observed[tracks[p].track_id]) > 16
        /\ Len(tracks[p].history) = 15
        /\ observed[tracks[p].track_id][1].bbox # tracks[p].history[1]
        /\ tracks[p].confidence_history[15] # tracks[p].confidence_history[1]

\* the ids of the active tracks
ActiveIds == {tracks[p].track_id : p \in 1..Len(tracks)}

\* C14: after every update call that returns, every track of the active set
\* has time_since_update < max_age; and an update call adds to the active set
\* only tracks it creates (with ids from next_id on), so a track that left the
\* set never comes back.
C14_EvictionPermanent ==
    /\ [](status = "ready" => \A p \in 1..Len(tracks) : tracks[p].time_since_update < max_age)
    /\ [](\A e \in expired : e.track_id \notin ActiveIds /\ e.track_id < next_id)
    /\ [][\A q \in 1..Len(tracks') :
             \/ tracks'[q].track_id \in ActiveIds
             \/ tracks'[q].track_id >= next_id]_vars

\* a track was evicted, and a track updated before is one miss from eviction
C14_Witness ==
    /\ expired # {}
    /\ \E p \in 1..Len(tracks) :
          /\ tracks[p].time_since_update = max_age - 1
          /\ tracks[p].hits >= 2
          /\ \E e \in expired : e.track_id < tracks[p].track_id

\* the box b has x2 > x1 and y2 > y1
ValidBox(b) == b[3] > b[1] /\ b[4] > b[2]

\* the area of a valid box
Area(b) == (b[3] - b[1]) * (b[4] - b[2])

\* the box b is a point or a segment: its area is 0
ZeroArea(b) == b[3] >= b[1] /\ b[4] >= b[2] /\ Area(b) = 0

\* two valid boxes share no point of positive area
Disjoint(a, b) ==
    \/ a[3] <= b[1] \/ b[3] <= a[1]
    \/ a[4] <= b[2] \/ b[4] <= a[2]

\* the area two valid boxes share, counted in unit cells
SharedCells(a, b) ==
    Cardinality({c \in (0..MaxCoord) \X (0..MaxCoord) :
                    /\ a[1] <= c[1] /\ c[1] < a[3] /\ a[2] <= c[2] /\ c[2] < a[4]
                    /\ b[1] <= c[1] /\ c[1] < b[3] /\ b[2] <= c[2] /\ c[2] < b[4]})

\* C15: for two valid boxes iou returns a value between 0 and 1, the shared
\* area over the area of the union; it is 1 for a box with itself and 0 for two
\* boxes that share no area; for two boxes of area 0, whose union area is 0,
\* it is 0.
C15_IouBounds ==
    probe.called =>
       /\ (ValidBox(probe.bbox1) /\ ValidBox(probe.bbox2)) =>
             /\ probe.result >= 0
             /\ probe.result <= 1000
             /\ probe.result = (1000 * SharedCells(probe.bbox1, probe.bbox2))
                               \div (Area(probe.bbox1) + Area(probe.bbox2)
                                     - SharedCells(probe.bbox1, probe.bbox2))
             /\ probe.bbox1 = probe.bbox2 => probe.result = 1000
             /\ Disjoint(probe.bbox1, probe.bbox2) => probe.result = 0
       /\ (ZeroArea(probe.bbox1) /\ ZeroArea(probe.bbox2)) => probe.result = 0

\* iou was called on two different valid boxes that overlap in part
C15_Witness ==
    /\ probe.called
    /\ ValidBox(probe.bbox1)
    /\ ValidBox(probe.bbox2)
    /\ probe.result > 0
    /\ probe.result < 1000

\* the frame indexes below n that are multiples of 2 (frame_skip), in increasing order
SampledFrames(n) == SortedSeq({i \in 0..(n - 1) : i % 2 = 0})

\* the frame indexes of the update calls of the session
UpdateFrames == [k \in 1..Len(session.update_calls) |-> session.update_calls[k].frame_idx]

\* the frame numbers of a list of frame results
FrameNumbers(frame_results) == [k \in 1..Len(frame_results) |-> frame_results[k].frame_number]

\* the detector and update were called for the same frames, each a multiple of
\* 2, in strictly increasing order
CallsOnlySampled ==
    /\ UpdateFrames = session.detector_calls
    /\ \A k \in 1..Len(session.detector_calls) : session.detector_calls[k] % 2 = 0
    /\ \A j, k \in 1..Len(session.detector_calls) :
          j < k => session.detector_calls[j] < session.detector_calls[k]

\* the returned result has one frame result for each sampled frame, in order,
\* each frame having had one detector call and one update call
OneResultPerSampledFrame ==
    /\ session.detector_calls = SampledFrames(session.n)
    /\ FrameNumbers(session.result.frame_results) = SampledFrames(session.n)
    /\ session.result.total_frames = session.n

TopK(L, K, kept) ==
    /\ Len(kept) = IF Len(L) <= K THEN Len(L) ELSE K
    /\ \A j, k \in 1..Len(kept) : j < k => kept[j].confidence >= kept[k].confidence
    /\ \E f \in [1..Len(kept) -> 1..Len(L)] :
          /\ \A j, k \in 1..Len(kept) : j # k => f[j] # f[k]
          /\ \A k \in 1..Len(kept) : kept[k] = L[f[k]]
          /\ \A i \in 1..Len(L) :
                (\A k \in 1..Len(kept) : f[k] # i) =>
                   \A k \in 1..Len(kept) : kept[k].confidence >= L[i].confidence

\* C17: for every list L the detector returned, what filter_detections returned
\* and update was given is L cut to K = max_tracks_per_frame detections by
\* confidence; update is never given more than K detections.
C17_FilterDetections ==
    session.phase # "idle" =>
       /\ \A k \in 1..Len(session.update_calls) :
             /\ TopK(session.update_calls[k].detected, session.max_tracks_per_frame,
                     session.update_calls[k].passed)
             /\ fed[k] = session.update_calls[k].passed
       /\ Len(fed) = Len(session.update_calls)
       /\ \A k \in 1..Len(fed) : Len(fed[k]) <= session.max_tracks_per_frame

\* three detections were cut to two, and the first of the three was left out
C17_Witness ==
    /\ session.phase # "idle"
    /\ \E k \in 1..Len(session.update_calls) :
          /\ Len(session.update_calls[k].detected) = 3
          /\ Len(session.update_calls[k].passed) = 2
          /\ \A j \in 1..2 :
                session.update_calls[k].passed[j] # session.update_calls[k].detected[1]

\* the ids of the tracks of a list
TrackIds(T) == [k \in 1..Len(T) |-> T[k].track_id]

\* the first K entries of a list (all of them if it has fewer)
FirstK(T, K) == IF Len(T) <= K THEN T ELSE [k \in 1..K |-> T[k]]

\* the tracks of a list with hits >= min_track_duration, in the list's order
WithThreeHits(T) ==
    LET Stable(t) == t.hits >= min_track_duration
    IN  SelectSeq(T, Stable)

\* C18: for every processed frame the emitted tracks are the first
\* max_tracks_per_frame of the tracks update returned that have hits >=
\* min_track_duration, in the tracker's order; and the tracker's active set is
\* still the whole list update returned.
C18_FilterThenCap ==
    session.phase \in {"loop", "done"} =>
       /\ Len(session.frame_results) = Len(session.returned)
       /\ \A k \in 1..Len(session.returned) :
             TrackIds(session.frame_results[k].tracks)
                = TrackIds(FirstK(WithThreeHits(session.returned[k]),
                                  session.max_tracks_per_frame))
       /\ (session.YOLO_AVAILABLE /\ session.returned # <<>>)
             => tracks = session.returned[Len(session.returned)]

\* the distinct track ids of the emitted frame results of a returned result
EmittedIds(result) == IdsOf(all_tracks(result.frame_results))

\* C19: in every returned result tracking_stats.total_tracks is the number of
\* distinct track ids of the emitted frame results, which is also the size of
\* track_durations and the top-level total_tracks.
C19_UniqueTrackCount ==
    session.phase = "done" =>
       /\ session.result.tracking_stats.total_tracks
             = Cardinality(EmittedIds(session.result))
       /\ session.result.tracking_stats.total_tracks
             = Cardinality(DOMAIN session.result.tracking_stats.track_durations)
       /\ session.result.tracking_stats.total_tracks = session.result.total_tracks

\* the detections with x2 <= x1 or y2 <= y1 of a list
Malformed(detections) ==
    {k \in 1..Len(detections) : ~ValidBox(detections[k].bbox)}

\* C20: a detection with x2 <= x1 or y2 <= y1 returned by the detector is never
\* passed to update, so no track ever carries such a box, and the well-formed
\* detections of the same frame are all passed on (up to
\* max_tracks_per_frame of them, by descending confidence).
C20_MalformedRejected ==
    /\ \A k \in 1..Len(session.update_calls) :
          /\ Malformed(session.update_calls[k].passed) = {}
          /\ LET wellFormed == SelectSeq(session.update_calls[k].detected,
                                         LAMBDA d : ValidBox(d.bbox))
             IN  session.update_calls[k].passed
                    = filter_detections(wellFormed, session.max_tracks_per_frame)
    /\ \A i \in 1..Len(tracks) : ValidBox(tracks[i].bbox)

MatrixStages ==
    {k \in 1..Len(call.stages) :
        call.stages[k].tracks # <<>> /\ call.stages[k].detections # <<>>}

\* C22: in every association made by the tracker of a TrackingService the cost
\* matrix has at most max_tracks_per_frame rows (tracks) and at most
\* max_tracks_per_frame columns (detections).
C22_MatrixBounded ==
    session.phase \in {"loop", "hung", "done"} =>
       \A k \in MatrixStages :
          /\ Len(call.stages[k].tracks) <= session.max_tracks_per_frame
          /\ Len(call.stages[k].detections) <= session.max_tracks_per_frame

\* the associations of the last update call made by greedy_assignment: scipy
\* cannot be imported and both lists are non-empty
GreedyStages == IF scipy_available THEN {} ELSE MatrixStages

\* C23: greedy_assignment returns for every list of detections and tracks,
\* also when a detection has no track above the threshold (its loop ends after
\* one pass over the detections), and so does the update call that uses it.
C23_GreedyTerminates ==
    /\ \A k \in GreedyStages : call.stages[k].result.returns
    /\ ~scipy_available => status = "ready"

\* number of pairs of matched whose component c (1 the track, 2 the
\* detection) is x
PairsWith(matched, c, x) == Cardinality({k \in 1..Len(matched) : matched[k][c] = x})

\* C24: in the result of greedy_assignment every detection of the argument
\* is in exactly one of the matched pairs and unmatched_detections, once, and
\* every track in exactly one of the matched pairs and unmatched_tracks, once;
\* and no detection that the fallback matched creates a track in the same
\* update call.
C24_GreedyPartition ==
    /\ \A k \in GreedyStages :
          LET r == call.stages[k].result
          IN  r.returns =>
                /\ \A d \in Range(call.stages[k].detections) :
                      PairsWith(r.matched, 2, d) + Count(r.unmatched_detections, d) = 1
                /\ \A t \in Range(call.stages[k].tracks) :
                      PairsWith(r.matched, 1, t) + Count(r.unmatched_tracks, t) = 1
    /\ ~scipy_available =>
          \A c \in 1..Len(call.created) : \A u \in Updates :
             call.updates[u].detection # call.created[c].detection

\* the last box a track was given by a detection
LastObserved(t) == t.history[Len(t.history)]

\* a box in units of 1/20 pixel
Scaled20(b) == [k \in 1..4 |-> 20 * b[k]]

\* C25: the predict calls at the start of update change nothing of a track but
\* its velocity, and not even that when the track has fewer than 2 history
\* entries; every entry of a cost matrix of the call is 1 - IoU of the track's
\* last observed box with the detection's box.
C25_PredictOnlyVelocity ==
    /\ Len(call.predicted) = Len(call.pre)
    /\ \A p \in 1..Len(call.pre) :
          /\ [call.predicted[p] EXCEPT !.velocity = call.pre[p].velocity] = call.pre[p]
          /\ Len(call.pre[p].history) < 2
                => call.predicted[p].velocity = call.pre[p].velocity
    /\ \A k \in MatrixStages :
          \A i \in 1..Len(call.stages[k].tracks) :
             \A j \in 1..Len(call.stages[k].detections) :
                call.stages[k].result.cost_matrix[i][j]
                   = 1000 - iou(LastObserved(call.pre[call.stages[k].tracks[i]]),
                                D[call.stages[k].detections[j]].bbox)

\* a moving track: predict changed its velocity, the box predict returned has
\* another IoU with the detection than the observed box, and the detection was
\* matched to the track
C25_Witness ==
    \E k \in MatrixStages :
       \E i \in 1..Len(call.stages[k].tracks) :
          \E j \in 1..Len(call.stages[k].detections) :
             LET p == call.stages[k].tracks[i]
                 d == call.stages[k].detections[j]
             IN  /\ call.predicted[p].velocity # call.pre[p].velocity
                 /\ predicted_bbox(call.predicted[p]) # Scaled20(call.pre[p].bbox)
                 /\ 1000 - iou(predicted_bbox(call.predicted[p]), Scaled20(D[d].bbox))
                       # call.stages[k].result.cost_matrix[i][j]
                 /\ \E m \in 1..Len(call.stages[k].result.matched) :
                       call.stages[k].result.matched[m] = <<p, d>>

\* the track at position p of the list the mark_missed loop runs over, as it
\* is when the loop starts: a track of the start of the call after predict, or
\* a track the call created
BeforeMiss(p) ==
    IF p <= Len(call.pre) THEN call.predicted[p] ELSE call.created[p - Len(call.pre)].track

\* x is 0.95 * y up to the rounding of the unit 1/1000
Is95Percent(x, y) == 100 * x <= 95 * y /\ 95 * y < 100 * (x + 1)

\* C26: every track that mark_missed is applied to has afterwards
\* time_since_update and age one greater, quality_score multiplied by 0.95,
\* and every other field as before (a confirmed track stays confirmed).
C26_MarkMissed ==
    \A k \in 1..Len(call.missed) :
       LET before == BeforeMiss(call.missed[k])
           after  == call.marked[call.missed[k]]
       IN  /\ after.time_since_update = before.time_since_update + 1
           /\ after.age = before.age + 1
           /\ Is95Percent(after.quality_score, before.quality_score)
           /\ [after EXCEPT !.time_since_update = before.time_since_update,
                            !.age = before.age,
                            !.quality_score = before.quality_score] = before

\* a confirmed track is missed for the second time in a row: it is still
\* confirmed and its quality_score is lower than before
C26_Witness ==
    \E k \in 1..Len(call.missed) :
       /\ call.missed[k] <= Len(call.pre)
       /\ call.pre[call.missed[k]].state = "confirmed"
       /\ call.pre[call.missed[k]].time_since_update = 1
       /\ call.marked[call.missed[k]].state = "confirmed"
       /\ call.marked[call.missed[k]].time_since_update = 2
       /\ call.marked[call.missed[k]].quality_score
             < call.pre[call.missed[k]].quality_score

\* the track with the id of t is in the active set
Active(t) == \E q \in 1..Len(tracks) : tracks[q].track_id = t.track_id

\* C27: of the tracks an update call has when it removes the old ones, the
\* removed ones are exactly those whose time_since_update exceeds max_age: a
\* track with time_since_update <= max_age is in the active set returned.
C27_RemovedWhenExceeds ==
    call.returned =>
       \A p \in 1..Len(call.marked) :
          Active(call.marked[p]) <=> call.marked[p].time_since_update <= max_age

\* the number of the update call that created the track t
Born(t) == observed[t.track_id][1].call

\* C28: a track is marked missed in the update call that creates it: in the
\* active set that call returns it has hits = 1, age = 1, time_since_update = 1
\* and quality_score = 0.95 x the confidence of its detection; and a track
\* that is never matched again is removed max_age - 1 calls after the call
\* that created it, not before.
C28_NewTrackMissed ==
    call.returned =>
       /\ \A q \in 1..Len(tracks) :
             Born(tracks[q]) = frame_count =>
                /\ tracks[q].hits = 1
                /\ tracks[q].age = 1
                /\ tracks[q].time_since_update = 1
                /\ Is95Percent(tracks[q].quality_score, tracks[q].confidence)
       /\ \A p \in 1..Len(call.marked) :
             call.marked[p].hits = 1 =>
                (Active(call.marked[p]) <=> frame_count < Born(call.marked[p]) + max_age - 1)

\* a track that was never matched after its creation is removed by the call
\* that comes max_age - 1 calls after its creation call, with age = max_age
C28_Witness ==
    /\ call.returned
    /\ \E p \in 1..Len(call.marked) :
          /\ call.marked[p].hits = 1
          /\ ~Active(call.marked[p])
          /\ frame_count = Born(call.marked[p]) + max_age - 1
          /\ call.marked[p].age = max_age
          /\ call.marked[p].time_since_update = max_age

\* the list T is in strictly increasing order of track id
IncreasingIds(T) == \A i, j \in 1..Len(T) : i < j => T[i].track_id < T[j].track_id

\* number of tracks of the list T with an id smaller than id
OlderThan(T, id) == Cardinality({i \in 1..Len(T) : T[i].track_id < id})

\* C29: the active set is in strictly increasing order of track id after every
\* update call, so that the tracks a session emits for a frame are among the
\* max_tracks_per_frame tracks with the lowest ids that update returned.
C29_CreationOrder ==
    /\ IncreasingIds(tracks)
    /\ session.phase \in {"loop", "done"} =>
          \A k \in 1..Len(session.returned) :
             /\ IncreasingIds(session.returned[k])
             /\ session.YOLO_AVAILABLE =>
                   \A e \in 1..Len(session.frame_results[k].tracks) :
                      OlderThan(session.returned[k],
                                session.frame_results[k].tracks[e].track_id)
                         < session.max_tracks_per_frame

\* after the first track was removed, update returned more tracks than
\* max_tracks_per_frame and the session emitted tracks with the lowest ids
\* left, but not the newest track
C29_Witness ==
    /\ session.phase \in {"loop", "done"}
    /\ \E k \in 1..Len(session.returned) :
          /\ Len(session.returned[k]) > session.max_tracks_per_frame
          /\ session.returned[k][1].track_id > 1
          /\ Len(session.frame_results[k].tracks) = session.max_tracks_per_frame
          /\ session.frame_results[k].tracks[1].track_id = session.returned[k][1].track_id

\* C30: every track of an active set returned by update has hits >= 1,
\* age >= hits, 0 <= time_since_update <= age, and an age equal to the number
\* of update calls from its creation call to this one.
C30_Counters ==
    status = "ready" =>
       \A q \in 1..Len(tracks) :
          /\ tracks[q].hits >= 1
          /\ tracks[q].age >= tracks[q].hits
          /\ 0 <= tracks[q].time_since_update
          /\ tracks[q].time_since_update <= tracks[q].age
          /\ tracks[q].age = frame_count - Born(tracks[q]) + 1

\* a track created after the first call that was matched and missed since:
\* more calls than hits, and a miss streak shorter than its age
C30_Witness ==
    /\ status = "ready"
    /\ \E q \in 1..Len(tracks) :
          /\ Born(tracks[q]) > 1
          /\ tracks[q].hits >= 2
          /\ tracks[q].age > tracks[q].hits
          /\ tracks[q].time_since_update > 0
          /\ tracks[q].time_since_update < tracks[q].age - 1

====
